---- MODULE Spec2Model ----
(***************************************************************************)
(* Model of src/app.py: the Flask <-> Spotify backend.                     *)
(*                                                                         *)
(* State: the module globals access_token, expires_at and sp (the token    *)
(* state), the wall clock, and one worker per request in flight with its   *)
(* position in the handler it runs.  A handler is the sequence of the      *)
(* steps its source performs (the auth gate, field checks, ensure_token,   *)
(* int() of a query parameter, a Spotify client call, the return); each    *)
(* step kind is one action.  Strings the code parses (the Authorization    *)
(* header, a limit/offset value) are sequences of one-character strings.   *)
(***************************************************************************)
EXTENDS Integers, Sequences, FiniteSets, TLC

\* ------------------------------------------------------------------ bounds
NThreads   == 2    \* workers of the threaded server (ConcSpec)
MaxTime    == 2    \* the clock runs 0..MaxTime
MaxTTL     == 1    \* a refreshed token lives 1..MaxTTL ticks
MaxRefresh == 2    \* successful refreshes after the one at startup
MaxHdr     == 2    \* characters of an Authorization value after its scheme
MaxParam   == 1    \* characters of a limit/offset query value
MaxNames   == 2    \* entries of track_names

\* ----------------------------------------------------------------- strings
Whitespace == {" ", "\t"}
IsSpace(c) == c \in Whitespace

RECURSIVE SeqsUpTo(_, _)
\* every sequence over alphabet A of length at most n
SeqsUpTo(A, n) ==
    IF n = 0 THEN {<<>>}
    ELSE LET shorter == SeqsUpTo(A, n - 1)
         IN  shorter \cup {Append(s, c) : s \in {t \in shorter : Len(t) = n - 1}, c \in A}

startswith(s, p) == Len(s) >= Len(p) /\ SubSeq(s, 1, Len(p)) = p

RECURSIVE SplitFrom(_, _, _, _)
\* str.split() with no separator: runs of whitespace separate the words, and
\* leading and trailing whitespace yields no empty word
SplitFrom(s, i, cur, acc) ==
    IF i > Len(s)
    THEN IF cur = <<>> THEN acc ELSE Append(acc, cur)
    ELSE IF IsSpace(s[i])
         THEN SplitFrom(s, i + 1, <<>>, IF cur = <<>> THEN acc ELSE Append(acc, cur))
         ELSE SplitFrom(s, i + 1, Append(cur, s[i]), acc)

split(s) == SplitFrom(s, 1, <<>>, <<>>)

RECURSIVE strip(_)
strip(s) ==
    IF s = <<>> THEN s
    ELSE IF IsSpace(s[1]) THEN strip(Tail(s))
    ELSE IF IsSpace(s[Len(s)]) THEN strip(SubSeq(s, 1, Len(s) - 1))
    ELSE s

Digits == {"0", "1", "2", "3", "4", "5", "6", "7", "8", "9"}
DigitVal(c) ==
    CASE c = "0" -> 0 [] c = "1" -> 1 [] c = "2" -> 2 [] c = "3" -> 3 [] c = "4" -> 4
      [] c = "5" -> 5 [] c = "6" -> 6 [] c = "7" -> 7 [] c = "8" -> 8 [] c = "9" -> 9

RECURSIVE DecimalValue(_, _)
DecimalValue(s, acc) ==
    IF s = <<>> THEN acc ELSE DecimalValue(Tail(s), 10 * acc + DigitVal(s[1]))

IsDecimal(s) == s # <<>> /\ \A i \in 1..Len(s) : s[i] \in Digits

\* int(x) of a query-string value: surrounding whitespace is dropped, one sign
\* is allowed, then at least one digit; anything else raises ValueError
int(s) ==
    LET t    == strip(s)
        sign == t # <<>> /\ t[1] \in {"-", "+"}
        body == IF sign THEN Tail(t) ELSE t
    IN  IF IsDecimal(body)
        THEN [ok |-> TRUE,
              val |-> IF sign /\ t[1] = "-" THEN 0 - DecimalValue(body, 0)
                      ELSE DecimalValue(body, 0)]
        ELSE [ok |-> FALSE, val |-> 0]

\* --------------------------------------------------------- configuration
\* GPT_API_TOKEN; the startup loop refuses an unset or empty value
API_TOKEN == <<"t">>
Bearer == <<"B", "e", "a", "r", "e", "r", " ">>

\* ----------------------------------------------------------------- inputs
HdrAlphabet == {"t", "k", " "}
\* an Authorization header a client may send: absent, or a value with or
\* without the scheme
Headers ==
    {[has |-> FALSE, val |-> <<>>]} \cup
    {[has |-> TRUE, val |-> b] : b \in SeqsUpTo(HdrAlphabet, MaxHdr)} \cup
    {[has |-> TRUE, val |-> Bearer \o b] : b \in SeqsUpTo(HdrAlphabet, MaxHdr)}

ParamAlphabet == {"7", "-", "x"}
\* a limit/offset query parameter: absent, or its text
Params ==
    {[has |-> FALSE, val |-> <<>>]} \cup
    {[has |-> TRUE, val |-> v] : v \in SeqsUpTo(ParamAlphabet, MaxParam)}

TrackNames == {"a", "b", "z"}
Artists == {"", "A"}
\* the catalogue behind sp.search: track a is by artist A, track b by another
\* artist, track z does not exist
SearchItems(name, artist) ==
    IF name = "a" \/ (name = "b" /\ artist = "")
    THEN << [uri |-> <<"spotify:track", name>>] >>
    ELSE <<>>

Threads == 1..NThreads

\* ------------------------------------------------------------------ steps
\* What a handler does, in source order.  try: the step runs inside the
\* handler's try/except Exception (a raise there becomes a JSON 500).
Gate           == [op |-> "gate", try |-> FALSE]
\* a required-field check that answers 400; what = "field": decided by the
\* request, "fixed": cannot fail for this caller, "names": track_names
Need(what, t)  == [op |-> "need", what |-> what, try |-> t]
Ensure(t)      == [op |-> "ensure", try |-> t]
IntArg(k, dflt, t) == [op |-> "int", key |-> k, dflt |-> dflt, try |-> t]
Sp(m, t)       == [op |-> "sp", m |-> m, try |-> t]
Resolve(t)     == [op |-> "resolve", try |-> t]
Ret(status)    == [op |-> "ret", status |-> status, try |-> FALSE]

\* @require_auth: the wrapper runs first, then the wrapped function
Protected(f) == <<Gate>> \o f

\* ----------------------------------------------------------------- handlers
home == << [op |-> "text", try |-> FALSE] >>

debug ==
    << Ensure(FALSE), [op |-> "debug_token", try |-> FALSE],
       [op |-> "debug_return", try |-> FALSE] >>

validate_token ==
    << [op |-> "validate_test", try |-> FALSE], Ensure(FALSE),
       [op |-> "validate_clear", try |-> FALSE],
       [op |-> "validate_return", try |-> FALSE] >>

get_song_lyric == << Need("field", FALSE), [op |-> "lyrics", try |-> TRUE] >>

get_top_items(item_type) ==
    << Need(item_type, FALSE), Ensure(FALSE), IntArg("limit", 20, TRUE),
       IntArg("offset", 0, TRUE), Sp("current_user_top_items", TRUE), Ret(200) >>

recently_played ==
    << Ensure(FALSE), IntArg("limit", 20, TRUE),
       Sp("current_user_recently_played", TRUE), Ret(200) >>

saved_tracks(method) ==
    IF method = "GET"
    THEN << Ensure(FALSE), IntArg("limit", 20, TRUE), IntArg("offset", 0, TRUE),
            Sp("current_user_saved_tracks", TRUE), Ret(200) >>
    ELSE << Ensure(FALSE), Need("field", TRUE),
            Sp(IF method = "PUT" THEN "current_user_saved_tracks_add"
               ELSE "current_user_saved_tracks_delete", TRUE), Ret(200) >>

saved_albums(method) ==
    IF method = "GET"
    THEN << Ensure(FALSE), IntArg("limit", 20, TRUE), IntArg("offset", 0, TRUE),
            Sp("current_user_saved_albums", TRUE), Ret(200) >>
    ELSE << Ensure(FALSE), Need("field", TRUE),
            Sp(IF method = "PUT" THEN "current_user_saved_albums_add"
               ELSE "current_user_saved_albums_delete", TRUE), Ret(200) >>

get_user_profile == << Ensure(FALSE), Sp("current_user", FALSE), Ret(200) >>

alias_top_artists == Protected(get_top_items("fixed"))
alias_top_tracks == Protected(get_top_items("fixed"))
alias_recently_played == Protected(recently_played)

alias_followed_artists ==
    << Ensure(FALSE), IntArg("limit", 20, FALSE),
       Sp("current_user_followed_artists", TRUE), Ret(200) >>

alias_saved_tracks == Protected(saved_tracks("GET"))
alias_saved_albums == Protected(saved_albums("GET"))

search ==
    << Need("field", FALSE), Ensure(FALSE), IntArg("limit", 20, TRUE),
       IntArg("offset", 0, TRUE), Sp("search", TRUE), Ret(200) >>

recommendations ==
    << Ensure(FALSE), IntArg("limit", 20, TRUE), Sp("recommendations", TRUE), Ret(200) >>

artist_details == << Ensure(FALSE), Sp("artist", TRUE), Ret(200) >>
artist_top_tracks == << Ensure(FALSE), Sp("artist_top_tracks", TRUE), Ret(200) >>
audio_features == << Ensure(FALSE), Sp("audio_features", TRUE), Ret(200) >>
audio_analysis == << Ensure(FALSE), Sp("_get", TRUE), Ret(200) >>

my_playlists ==
    << Ensure(FALSE), IntArg("limit", 20, TRUE), IntArg("offset", 0, TRUE),
       Sp("current_user_playlists", TRUE), Ret(200) >>

create_playlist ==
    << Need("field", FALSE), Ensure(FALSE), Sp("user_playlist_create", TRUE), Ret(201) >>

playlist_details_edit(method) ==
    IF method = "GET"
    THEN << Ensure(FALSE), Sp("playlist", TRUE), Ret(200) >>
    ELSE << Ensure(FALSE), Sp("playlist_change_details", TRUE), Ret(200) >>

playlist_tracks(method) ==
    CASE method = "GET" ->
           << Ensure(FALSE), IntArg("limit", 100, TRUE), IntArg("offset", 0, TRUE),
              Sp("playlist_items", TRUE), Ret(200) >>
      [] method = "POST" ->
           << Ensure(FALSE), Need("field", TRUE), Sp("playlist_add_items", TRUE), Ret(201) >>
      [] method = "DELETE" ->
           << Ensure(FALSE), Need("field", TRUE),
              Sp("playlist_remove_specific_occurrences_of_items", TRUE), Ret(200) >>
      [] OTHER ->
           << Ensure(FALSE), Need("field", TRUE), Sp("playlist_reorder_items", TRUE),
              Ret(200) >>

follow_playlist(method) ==
    << Ensure(FALSE),
       Sp(IF method = "PUT" THEN "current_user_follow_playlist"
          ELSE "current_user_unfollow_playlist", TRUE), Ret(200) >>

add_tracks_by_name ==
    << Need("names", FALSE), Ensure(TRUE), Resolve(TRUE),
       Sp("playlist_add_items", TRUE), Ret(200) >>

following(method) ==
    << Ensure(FALSE), Need("field", FALSE), Need("field", FALSE),
       Sp(CASE method = "GET" -> "current_user_following_artists"
            [] method = "PUT" -> "current_user_follow_artists"
            [] OTHER -> "current_user_unfollow_artists", TRUE), Ret(200) >>

alias_get_user_playlists == Protected(my_playlists)

alias_create_playlist ==
    << Need("field", FALSE), Sp("me", FALSE), Ensure(FALSE),
       Sp("user_playlist_create", TRUE), Ret(201) >>

alias_patch_playlist == Protected(playlist_details_edit("PUT"))
alias_remove_tracks == <<Need("field", FALSE)>> \o Protected(playlist_tracks("DELETE"))
alias_reorder_tracks == <<Need("field", FALSE)>> \o Protected(playlist_tracks("PUT"))
add_tracks_legacy == <<Need("names", FALSE)>> \o Protected(add_tracks_by_name)

\* ------------------------------------------------------------------- routes
\* @app.route: the methods each view function accepts
Methods(route) ==
    CASE route \in {"saved_tracks", "saved_albums", "following"} -> {"GET", "PUT", "DELETE"}
      [] route = "playlist_details_edit" -> {"GET", "PUT"}
      [] route = "playlist_tracks" -> {"GET", "POST", "DELETE", "PUT"}
      [] route = "follow_playlist" -> {"PUT", "DELETE"}
      [] route \in {"create_playlist", "add_tracks_by_name", "alias_create_playlist",
                    "alias_reorder_tracks", "add_tracks_legacy"} -> {"POST"}
      [] route = "alias_patch_playlist" -> {"PATCH"}
      [] route = "alias_remove_tracks" -> {"DELETE"}
      [] OTHER -> {"GET"}

ProtectedRoutes ==
    {"debug", "validate_token", "get_song_lyric", "get_top_items", "recently_played",
     "saved_tracks", "saved_albums", "get_user_profile", "alias_top_artists",
     "alias_top_tracks", "alias_recently_played", "alias_followed_artists",
     "alias_saved_tracks", "alias_saved_albums", "search", "recommendations",
     "artist_details", "artist_top_tracks", "audio_features", "audio_analysis",
     "my_playlists", "create_playlist", "playlist_details_edit", "playlist_tracks",
     "follow_playlist", "add_tracks_by_name", "following", "alias_get_user_playlists",
     "alias_create_playlist", "alias_patch_playlist", "alias_remove_tracks",
     "alias_reorder_tracks", "add_tracks_legacy"}

Routes == {"home"} \cup ProtectedRoutes

\* the view function of a route, undecorated
View(route, method) ==
    CASE route = "home" -> home
      [] route = "debug" -> debug
      [] route = "validate_token" -> validate_token
      [] route = "get_song_lyric" -> get_song_lyric
      [] route = "get_top_items" -> get_top_items("field")
      [] route = "recently_played" -> recently_played
      [] route = "saved_tracks" -> saved_tracks(method)
      [] route = "saved_albums" -> saved_albums(method)
      [] route = "get_user_profile" -> get_user_profile
      [] route = "alias_top_artists" -> alias_top_artists
      [] route = "alias_top_tracks" -> alias_top_tracks
      [] route = "alias_recently_played" -> alias_recently_played
      [] route = "alias_followed_artists" -> alias_followed_artists
      [] route = "alias_saved_tracks" -> alias_saved_tracks
      [] route = "alias_saved_albums" -> alias_saved_albums
      [] route = "search" -> search
      [] route = "recommendations" -> recommendations
      [] route = "artist_details" -> artist_details
      [] route = "artist_top_tracks" -> artist_top_tracks
      [] route = "audio_features" -> audio_features
      [] route = "audio_analysis" -> audio_analysis
      [] route = "my_playlists" -> my_playlists
      [] route = "create_playlist" -> create_playlist
      [] route = "playlist_details_edit" -> playlist_details_edit(method)
      [] route = "playlist_tracks" -> playlist_tracks(method)
      [] route = "follow_playlist" -> follow_playlist(method)
      [] route = "add_tracks_by_name" -> add_tracks_by_name
      [] route = "following" -> following(method)
      [] route = "alias_get_user_playlists" -> alias_get_user_playlists
      [] route = "alias_create_playlist" -> alias_create_playlist
      [] route = "alias_patch_playlist" -> alias_patch_playlist
      [] route = "alias_remove_tracks" -> alias_remove_tracks
      [] route = "alias_reorder_tracks" -> alias_reorder_tracks
      [] route = "add_tracks_legacy" -> add_tracks_legacy

\* what Flask runs for a request: the view function as decorated
Program(q) ==
    IF q.route \in ProtectedRoutes THEN Protected(View(q.route, q.method))
    ELSE View(q.route, q.method)

\* the routes that read limit/offset from the query string
ListingRoutes ==
    {rt \in Routes : \E m \in Methods(rt) : \E i \in 1..Len(View(rt, m)) :
                        View(rt, m)[i].op = "int"}

\* -------------------------------------------------------------------- state
VARIABLES
    now,            \* datetime.now().timestamp()
    access_token,   \* global: the stored token, <<serial, the expiry issued with it>>
    expires_at,     \* global: the expiry stored with it
    sp,             \* global: the Spotify client, as the token it was built with
    issued,         \* the authorization server: how many tokens it has issued
    req,            \* per worker: the request it serves
    pc,             \* per worker: 0 idle, else the index of its next step
    sub,            \* per worker: its place inside ensure_token
    loc,            \* per worker: the handler's local variables
    resp,           \* per worker: the response, status 0 while none
    g,              \* per worker: what the request has done so far (history)
    lastfail        \* the token state a failed refresh found, until one succeeds

vars == <<now, access_token, expires_at, sp, issued, req, pc, sub, loc, resp, g, lastfail>>

TokenState == <<access_token, expires_at, sp>>

NoHeader == [has |-> FALSE, val |-> <<>>]
NoReq  == [route |-> "", method |-> "", auth |-> NoHeader]
NoLoc  == [ret |-> <<>>, client |-> <<>>, read |-> FALSE, names |-> <<>>, artist |-> "",
           i |-> 0, uris |-> <<>>, args |-> <<>>, expired |-> FALSE, tok |-> <<>>]
NoResp == [status |-> 0, kind |-> "", tok |-> <<>>, expired |-> FALSE]
NoG    == [start |-> <<>>, ensured |-> FALSE, nref |-> 0, chk |-> <<>>, got |-> <<>>,
           post |-> <<>>, failed |-> FALSE, calls |-> <<>>, notfound |-> FALSE, params |-> <<>>,
           test |-> <<>>]

\* lines 55-56: the refresh at import time and the first client
Init ==
    /\ now = 0
    /\ \E d \in 1..MaxTTL :
          /\ issued = 1
          /\ access_token = <<1, now + d>>
          /\ expires_at = now + d
    /\ sp = access_token
    /\ req = [r \in Threads |-> NoReq]
    /\ pc = [r \in Threads |-> 0]
    /\ sub = [r \in Threads |-> ""]
    /\ loc = [r \in Threads |-> NoLoc]
    /\ resp = [r \in Threads |-> NoResp]
    /\ g = [r \in Threads |-> NoG]
    /\ lastfail = <<>>

Running(r) == pc[r] > 0 /\ resp[r].status = 0
Cur(r) == Program(req[r])[pc[r]]
At(r, op) == Running(r) /\ sub[r] = "" /\ Cur(r).op = op

Globals == <<access_token, expires_at, sp, issued, lastfail>>

\* the response of an exception: caught by the handler's except (a JSON error)
\* or left to Flask
Raised(t) == [NoResp EXCEPT !.status = 500, !.kind = IF t THEN "error" ELSE "unhandled"]

\* ------------------------------------------------------------------ the gate
headers_get(h, default) == IF h.has THEN h.val ELSE default

token_after_scheme(auth) ==
    IF startswith(auth, Bearer) THEN SubSeq(auth, Len(Bearer) + 1, Len(auth)) ELSE auth

token_last_word(auth) ==
    IF split(auth) # <<>> THEN split(auth)[Len(split(auth))] ELSE auth

\* line 70
token(auth) ==
    IF startswith(auth, Bearer) THEN split(auth)[Len(split(auth))] ELSE auth

\* lines 68-73: wrapper
require_auth(r) ==
    /\ At(r, "gate")
    /\ LET auth == headers_get(req[r].auth, <<>>)
       IN  IF token(auth) # API_TOKEN
           THEN /\ resp' = [resp EXCEPT ![r] = [NoResp EXCEPT !.status = 401, !.kind = "error"]]
                /\ pc' = pc
           ELSE /\ pc' = [pc EXCEPT ![r] = @ + 1]
                /\ resp' = resp
    /\ UNCHANGED <<now, Globals, req, sub, loc, g>>

\* --------------------------------------------------------- request arrival
Start(r, routes, headers) ==
    /\ pc[r] = 0
    /\ \E rt \in routes : \E m \in Methods(rt) : \E h \in headers :
          req' = [req EXCEPT ![r] = [route |-> rt, method |-> m, auth |-> h]]
    /\ pc' = [pc EXCEPT ![r] = 1]
    /\ g' = [g EXCEPT ![r] = [NoG EXCEPT !.start = TokenState]]
    /\ UNCHANGED <<now, Globals, sub, loc, resp>>

\* the response leaves; the worker is free again
Finish(r) ==
    /\ resp[r].status # 0
    /\ req' = [req EXCEPT ![r] = NoReq]
    /\ pc' = [pc EXCEPT ![r] = 0]
    /\ sub' = [sub EXCEPT ![r] = ""]
    /\ loc' = [loc EXCEPT ![r] = NoLoc]
    /\ resp' = [resp EXCEPT ![r] = NoResp]
    /\ g' = [g EXCEPT ![r] = NoG]
    /\ UNCHANGED <<now, Globals>>

Tick ==
    /\ now < MaxTime
    /\ now' = now + 1
    /\ UNCHANGED <<Globals, req, pc, sub, loc, resp, g>>

\* ------------------------------------------------------------- ensure_token
ExpiredAfter(t, e) == t > e

\* line 61
Expired(t, e) == t >= e

\* lines 108 and 114
PastExpiry(t, e) == t > e

\* line 61: the test; not expired: ensure_token returns at once
ensure_token(r) ==
    /\ At(r, "ensure")
    /\ LET exp == Expired(now, expires_at)
       IN  /\ g' = [g EXCEPT ![r].chk = <<now, access_token, expires_at, sp>>,
                             ![r].test = <<"ensure_token", now, expires_at, exp>>,
                             ![r].ensured = ~exp,
                             ![r].post = IF exp THEN <<>> ELSE TokenState]
           /\ IF exp
              THEN sub' = [sub EXCEPT ![r] = "refresh"] /\ pc' = pc
              ELSE pc' = [pc EXCEPT ![r] = @ + 1] /\ sub' = sub
    /\ UNCHANGED <<now, Globals, req, loc, resp>>

\* a refresh that looks at the expiry again and leaves when another request
\* has stored a fresh pair meanwhile
refresh_unless_fresh(r) ==
    /\ Running(r) /\ sub[r] = "refresh"
    /\ IF Expired(now, expires_at)
       THEN /\ issued <= MaxRefresh
            /\ \E d \in 1..MaxTTL :
                  LET pair == << <<issued + 1, now + d>>, now + d >>
                  IN  /\ issued' = issued + 1
                      /\ loc' = [loc EXCEPT ![r].ret = pair]
                      /\ g' = [g EXCEPT ![r].nref = @ + 1, ![r].got = pair]
            /\ sub' = [sub EXCEPT ![r] = "store_token"]
            /\ pc' = pc
       ELSE /\ sub' = [sub EXCEPT ![r] = ""]
            /\ pc' = [pc EXCEPT ![r] = @ + 1]
            /\ g' = [g EXCEPT ![r].ensured = TRUE, ![r].post = TokenState]
            /\ UNCHANGED <<issued, loc>>
    /\ UNCHANGED <<now, access_token, expires_at, sp, lastfail, req, resp>>

\* lines 49-53, 62: the refresh-token grant answers with a new pair
refresh_access_token(r) ==
    /\ Running(r) /\ sub[r] = "refresh"
    /\ issued <= MaxRefresh
    /\ \E d \in 1..MaxTTL :
          LET pair == << <<issued + 1, now + d>>, now + d >>
          IN  /\ issued' = issued + 1
              /\ loc' = [loc EXCEPT ![r].ret = pair]
              /\ g' = [g EXCEPT ![r].nref = @ + 1, ![r].got = pair]
    /\ sub' = [sub EXCEPT ![r] = "store_token"]
    /\ UNCHANGED <<now, access_token, expires_at, sp, lastfail, req, pc, resp>>

refresh_raises_clearing(r) ==
    /\ Running(r) /\ sub[r] = "refresh"
    /\ access_token' = <<>> /\ expires_at' = 0
    /\ lastfail' = TokenState
    /\ g' = [g EXCEPT ![r].nref = @ + 1, ![r].failed = TRUE]
    /\ resp' = [resp EXCEPT ![r] = Raised(Cur(r).try)]
    /\ sub' = [sub EXCEPT ![r] = ""]
    /\ UNCHANGED <<now, sp, issued, req, pc, loc>>

\* lines 51, 62: the grant fails and the exception leaves ensure_token before
\* the assignment
refresh_raises(r) ==
    /\ Running(r) /\ sub[r] = "refresh"
    /\ lastfail' = TokenState
    /\ g' = [g EXCEPT ![r].nref = @ + 1, ![r].failed = TRUE]
    /\ resp' = [resp EXCEPT ![r] = Raised(Cur(r).try)]
    /\ sub' = [sub EXCEPT ![r] = ""]
    /\ UNCHANGED <<now, access_token, expires_at, sp, issued, req, pc, loc>>

\* line 62: the tuple is unpacked into the two globals one after the other
store_access_token(r) ==
    /\ Running(r) /\ sub[r] = "store_token"
    /\ access_token' = loc[r].ret[1]
    /\ lastfail' = <<>>
    /\ sub' = [sub EXCEPT ![r] = "store_expires"]
    /\ UNCHANGED <<now, expires_at, sp, issued, req, pc, loc, resp, g>>

store_expires_at(r) ==
    /\ Running(r) /\ sub[r] = "store_expires"
    /\ expires_at' = loc[r].ret[2]
    /\ sub' = [sub EXCEPT ![r] = "build"]
    /\ UNCHANGED <<now, access_token, sp, issued, lastfail, req, pc, loc, resp, g>>

\* line 63, right-hand side: the client is built from the global access_token
build_client(r) ==
    /\ Running(r) /\ sub[r] = "build"
    /\ loc' = [loc EXCEPT ![r].client = access_token]
    /\ sub' = [sub EXCEPT ![r] = "store_sp"]
    /\ UNCHANGED <<now, Globals, req, pc, resp, g>>

\* line 63, the assignment; ensure_token returns
store_sp(r) ==
    /\ Running(r) /\ sub[r] = "store_sp"
    /\ sp' = loc[r].client
    /\ sub' = [sub EXCEPT ![r] = ""]
    /\ pc' = [pc EXCEPT ![r] = @ + 1]
    /\ g' = [g EXCEPT ![r].ensured = TRUE,
                      ![r].post = <<access_token, expires_at, loc[r].client>>]
    /\ UNCHANGED <<now, access_token, expires_at, issued, lastfail, req, loc, resp>>

\* ------------------------------------------------------- the handlers' steps
Advance(r) == pc' = [pc EXCEPT ![r] = @ + 1]
Answer(r, rsp) == resp' = [resp EXCEPT ![r] = rsp]

\* `if not <field>: return jsonify({"error": ...}), 400`
need(r) ==
    /\ At(r, "need")
    /\ CASE Cur(r).what = "fixed" ->
              Advance(r) /\ UNCHANGED <<resp, loc>>
         [] Cur(r).what = "field" ->
              \E present \in BOOLEAN :
                 /\ IF present THEN Advance(r) /\ resp' = resp
                    ELSE Answer(r, [NoResp EXCEPT !.status = 400, !.kind = "error"])
                         /\ pc' = pc
                 /\ loc' = loc
         [] Cur(r).what = "names" ->
              IF loc[r].read
              THEN Advance(r) /\ UNCHANGED <<resp, loc>>
              ELSE \E names \in SeqsUpTo(TrackNames, MaxNames) : \E artist \in Artists :
                      /\ loc' = [loc EXCEPT ![r].read = TRUE, ![r].names = names,
                                            ![r].artist = artist]
                      /\ IF names # <<>> THEN Advance(r) /\ resp' = resp
                         ELSE Answer(r, [NoResp EXCEPT !.status = 400, !.kind = "error"])
                              /\ pc' = pc
    /\ UNCHANGED <<now, Globals, req, sub, g>>

\* `int(request.args.get(key, default))`
int_param(r) ==
    /\ At(r, "int")
    /\ \E p \in Params :
          LET v == IF p.has THEN int(p.val) ELSE [ok |-> TRUE, val |-> Cur(r).dflt]
          IN  /\ g' = [g EXCEPT ![r].params = Append(@, p)]
              /\ IF v.ok
                 THEN /\ loc' = [loc EXCEPT ![r].args = Append(@, v.val)]
                      /\ Advance(r) /\ resp' = resp
                 ELSE /\ Answer(r, Raised(Cur(r).try))
                      /\ UNCHANGED <<loc, pc>>
    /\ UNCHANGED <<now, Globals, req, sub>>

\* one call of the global client sp; Spotify answers or the client raises
Call(r, m, arg) == [m |-> m, auth |-> sp, ensured |-> g[r].ensured, arg |-> arg]

sp_call(r) ==
    /\ At(r, "sp")
    /\ g' = [g EXCEPT ![r].calls = Append(@, Call(r, Cur(r).m, loc[r].uris))]
    /\ \E answered \in BOOLEAN :
          IF answered THEN Advance(r) /\ resp' = resp
          ELSE Answer(r, Raised(Cur(r).try)) /\ pc' = pc
    /\ UNCHANGED <<now, Globals, req, sub, loc>>

ResolvedSkipping(uris, items) ==
    [miss |-> FALSE, uris |-> IF items = <<>> THEN uris ELSE Append(uris, items[1].uri)]

\* lines 88-91: no item raises ValueError, else the first item's URI is kept
Resolved(uris, items) ==
    [miss |-> items = <<>>, uris |-> IF items = <<>> THEN uris ELSE Append(uris, items[1].uri)]

\* lines 83-92: one turn of the loop of track_search_to_uris
track_search_to_uris(r) ==
    /\ At(r, "resolve")
    /\ LET i    == loc[r].i + 1
           name == loc[r].names[i]
           out  == Resolved(loc[r].uris, SearchItems(name, loc[r].artist))
           call == Call(r, "search", <<name, loc[r].artist>>)
       IN  \E answered \in BOOLEAN :
              IF answered /\ ~out.miss
              THEN /\ loc' = [loc EXCEPT ![r].i = i, ![r].uris = out.uris]
                   /\ IF i = Len(loc[r].names) THEN Advance(r) ELSE pc' = pc
                   /\ g' = [g EXCEPT ![r].calls = Append(@, call)]
                   /\ resp' = resp
              ELSE /\ Answer(r, Raised(Cur(r).try))
                   /\ g' = [g EXCEPT ![r].calls = Append(@, call), ![r].notfound = answered]
                   /\ UNCHANGED <<loc, pc>>
    /\ UNCHANGED <<now, Globals, req, sub>>

\* `return jsonify(...)[, 201]`
ret(r) ==
    /\ At(r, "ret")
    /\ Answer(r, [NoResp EXCEPT !.status = Cur(r).status, !.kind = "json"])
    /\ UNCHANGED <<now, Globals, req, pc, sub, loc, g>>

\* lines 95-97
text(r) ==
    /\ At(r, "text")
    /\ Answer(r, [NoResp EXCEPT !.status = 200, !.kind = "text"])
    /\ UNCHANGED <<now, Globals, req, pc, sub, loc, g>>

\* lines 128-142: lyrics.ovh answers, has no lyrics, or fails
lyrics(r) ==
    /\ At(r, "lyrics")
    /\ \E st \in {200, 404, 500} :
          Answer(r, [NoResp EXCEPT !.status = st, !.kind = IF st = 200 THEN "json" ELSE "error"])
    /\ UNCHANGED <<now, Globals, req, pc, sub, loc, g>>

\* lines 114-115
validate_test(r) ==
    /\ At(r, "validate_test")
    /\ LET expired == PastExpiry(now, expires_at)
       IN  /\ loc' = [loc EXCEPT ![r].expired = expired]
           /\ g' = [g EXCEPT ![r].test = <<"validate_token", now, expires_at, expired>>]
           /\ pc' = [pc EXCEPT ![r] = IF expired THEN @ + 1 ELSE @ + 3]
    /\ UNCHANGED <<now, Globals, req, sub, resp>>

\* line 117
validate_clear(r) ==
    /\ At(r, "validate_clear")
    /\ loc' = [loc EXCEPT ![r].expired = FALSE]
    /\ Advance(r)
    /\ UNCHANGED <<now, Globals, req, sub, resp, g>>

\* line 118
validate_return(r) ==
    /\ At(r, "validate_return")
    /\ Answer(r, [NoResp EXCEPT !.status = 200, !.kind = "json", !.tok = access_token,
                                !.expired = loc[r].expired])
    /\ UNCHANGED <<now, Globals, req, pc, sub, loc, g>>

\* line 107
debug_token(r) ==
    /\ At(r, "debug_token")
    /\ loc' = [loc EXCEPT ![r].tok = access_token]
    /\ Advance(r)
    /\ UNCHANGED <<now, Globals, req, sub, resp, g>>

\* lines 108, 103
debug_return(r) ==
    /\ At(r, "debug_return")
    /\ LET expired == PastExpiry(now, expires_at)
       IN  /\ g' = [g EXCEPT ![r].test = <<"debug", now, expires_at, expired>>]
           /\ Answer(r, [NoResp EXCEPT !.status = 200, !.kind = "json", !.tok = loc[r].tok,
                                       !.expired = expired])
    /\ UNCHANGED <<now, Globals, req, pc, sub, loc>>

\* ---------------------------------------------------------- specifications
\* one request at a time: a server with a single worker
Worker == CHOOSE r \in Threads : TRUE

Arrive(r) == Start(r, Routes, Headers)

Serve(r) ==
    \/ require_auth(r) \/ need(r) \/ ensure_token(r) \/ refresh_access_token(r)
    \/ refresh_raises(r) \/ store_access_token(r) \/ store_expires_at(r)
    \/ build_client(r) \/ store_sp(r) \/ int_param(r) \/ sp_call(r)
    \/ track_search_to_uris(r) \/ ret(r) \/ text(r) \/ lyrics(r)
    \/ validate_test(r) \/ validate_clear(r) \/ validate_return(r)
    \/ debug_token(r) \/ debug_return(r) \/ Finish(r)

Next == Tick \/ Arrive(Worker) \/ Serve(Worker)

Spec == Init /\ [][Next]_vars

\* the threaded server (app.run serves each request in its own thread):
\* NThreads requests, one per thread, interleave at every step; their clients
\* send the token and ask for the routes that read the token state
ConcRoutes == {"debug", "get_user_profile"}
ConcHeaders == {[has |-> TRUE, val |-> Bearer \o API_TOKEN]}

ConcArrive(r) == Start(r, ConcRoutes, ConcHeaders)

ConcServe(r) ==
    \/ require_auth(r) \/ ensure_token(r) \/ refresh_access_token(r)
    \/ refresh_raises(r) \/ store_access_token(r) \/ store_expires_at(r)
    \/ build_client(r) \/ store_sp(r) \/ sp_call(r) \/ ret(r)
    \/ debug_token(r) \/ debug_return(r)

ConcNext == Tick \/ \E r \in Threads : ConcArrive(r) \/ ConcServe(r)

ConcSpec == Init /\ [][ConcNext]_vars

\* ------------------------------------------------------------------- claims
\* The credential a header carries, said without split(): w is the last word
\* of s when it sits between whitespace (or the start) and trailing whitespace
IsLastWord(s, w) ==
    \E i \in 1..Len(s) :
        LET j == i + Len(w) - 1
        IN  /\ j <= Len(s)
            /\ SubSeq(s, i, j) = w
            /\ \A k \in i..j : ~IsSpace(s[k])
            /\ i = 1 \/ IsSpace(s[i - 1])
            /\ \A k \in (j + 1)..Len(s) : IsSpace(s[k])

Presents(h) ==
    /\ h.has
    /\ IF startswith(h.val, Bearer) THEN IsLastWord(h.val, API_TOKEN)
       ELSE h.val = API_TOKEN

Serving(r) == pc[r] > 0
Guarded(r) == Serving(r) /\ req[r].route \in ProtectedRoutes
Responded(r) == resp[r].status # 0
PastGate(r) == pc[r] > 1

\* C1: on a protected route a request whose Authorization header is absent,
\* empty or does not carry API_TOKEN is answered 401 with an error body and
\* never gets past the gate: no expiry test, no refresh, no Spotify client call,
\* and access_token, expires_at and sp stay as the request found them.
C1_UnauthorizedNeverRuns ==
    \A r \in Threads :
        (Guarded(r) /\ ~Presents(req[r].auth)) =>
            /\ ~PastGate(r)
            /\ g[r].chk = <<>> /\ g[r].nref = 0 /\ g[r].calls = <<>>
            /\ TokenState = g[r].start
            /\ Responded(r) => (resp[r].status = 401 /\ resp[r].kind = "error")

C1_Witness ==
    \E r \in Threads :
        /\ Guarded(r) /\ ~Presents(req[r].auth)
        /\ req[r].auth.val = Bearer
        /\ req[r].route = "add_tracks_legacy"
        /\ resp[r].status = 401

\* C2: the gate lets a request through to its handler exactly when the header
\* begins with "Bearer " and its last whitespace-separated word is API_TOKEN,
\* or does not begin with "Bearer " and is API_TOKEN as a whole; a request let
\* through gets the handler's own answer, never the gate's 401.
C2_GatePassesIffToken ==
    \A r \in Threads :
        (Guarded(r) /\ (PastGate(r) \/ Responded(r))) =>
            /\ PastGate(r) <=> Presents(req[r].auth)
            /\ PastGate(r) => resp[r].status # 401

C2_Witness ==
    \E r \in Threads :
        /\ Guarded(r) /\ PastGate(r)
        /\ startswith(req[r].auth.val, Bearer)
        /\ req[r].auth.val # Bearer \o API_TOKEN
        /\ resp[r].status = 200

\* C3: with one request at a time, ensure_token called when now < expires_at
\* refreshes nothing and leaves access_token, expires_at and sp as they were;
\* called when now >= expires_at it refreshes exactly once, and when it returns
\* access_token and expires_at are the pair that refresh returned and sp is a
\* client built from that access_token.
C3_EnsureTokenRefreshesOnExpiry ==
    \A r \in Threads :
        g[r].chk # <<>> =>
            /\ g[r].nref <= 1
            /\ g[r].chk[1] < g[r].chk[3] =>
                  /\ g[r].nref = 0 /\ g[r].ensured
                  /\ g[r].post = <<g[r].chk[2], g[r].chk[3], g[r].chk[4]>>
                  /\ TokenState = g[r].post
            /\ (g[r].chk[1] >= g[r].chk[3] /\ g[r].ensured) =>
                  /\ g[r].nref = 1
                  /\ g[r].got # <<>> /\ g[r].got[1][2] = g[r].got[2]
                  /\ g[r].got[1] # g[r].chk[2]
                  /\ g[r].post = <<g[r].got[1], g[r].got[2], g[r].got[1]>>
                  /\ TokenState = g[r].post
            /\ (g[r].chk[1] >= g[r].chk[3] /\ ~g[r].ensured /\ ~g[r].failed) => sub[r] # ""

C3_Witness ==
    \E r \in Threads :
        /\ g[r].chk # <<>> /\ g[r].chk[1] = g[r].chk[3]
        /\ g[r].ensured /\ g[r].nref = 1
        /\ Len(g[r].calls) > 0

\* C4: in every request to a protected route, each Spotify client call comes
\* after ensure_token has run in that request (the alias routes included).
C4_EnsureBeforeSpotifyCall ==
    \A r \in Threads :
        Guarded(r) => \A i \in 1..Len(g[r].calls) : g[r].calls[i].ensured

\* C5: when the refresh inside ensure_token raises, access_token, expires_at
\* and sp keep the values they had before the call, the request ends in a 500,
\* and the requests after it find that same token state until a refresh
\* succeeds.
C5_FailedRefreshKeepsState ==
    /\ lastfail # <<>> => TokenState = lastfail
    /\ \A r \in Threads :
          g[r].failed =>
              /\ TokenState = <<g[r].chk[2], g[r].chk[3], g[r].chk[4]>>
              /\ resp[r].status = 500

C5_Witness ==
    /\ lastfail # <<>>
    /\ \E r \in Threads :
          /\ ~g[r].failed /\ g[r].nref = 0
          /\ g[r].chk # <<>> /\ <<g[r].chk[2], g[r].chk[3], g[r].chk[4]>> = lastfail
          /\ g[r].chk[1] >= g[r].chk[3]

NameRoutes == {"add_tracks_by_name", "add_tracks_legacy"}
AddCalls(r) == SelectSeq(g[r].calls, LAMBDA c : c.m = "playlist_add_items")
Found(r, i) == SearchItems(loc[r].names[i], loc[r].artist) # <<>>

\* C6: on the name-based add routes playlist_add_items is called at most once,
\* and only when every name of track_names has a search result, with the first
\* result's URI of each name in the order of the names; one name without a
\* result, at whatever position, and nothing is added.
C6_AddByNameAllOrNothing ==
    \A r \in Threads :
        (Serving(r) /\ req[r].route \in NameRoutes) =>
            /\ Len(AddCalls(r)) <= 1
            /\ (\E i \in 1..Len(loc[r].names) : ~Found(r, i)) => AddCalls(r) = <<>>
            /\ AddCalls(r) # <<>> =>
                  AddCalls(r)[1].arg =
                      [i \in 1..Len(loc[r].names) |->
                          SearchItems(loc[r].names[i], loc[r].artist)[1].uri]
            /\ resp[r].status = 200 => Len(AddCalls(r)) = 1

C6_Witness ==
    \E r \in Threads :
        /\ req[r].route = "add_tracks_legacy"
        /\ Len(loc[r].names) = 2 /\ Found(r, 1) /\ ~Found(r, 2)
        /\ loc[r].uris # <<>>
        /\ Responded(r) /\ AddCalls(r) = <<>>

\* C7: when a name has no search result, POST /playlists/{id}/tracks/from-names
\* answers 404 with an error body.
C7_MissingNameIs404 ==
    \A r \in Threads :
        (Serving(r) /\ req[r].route \in NameRoutes /\ g[r].notfound /\ Responded(r)) =>
            (resp[r].status = 404 /\ resp[r].kind = "error")

\* C8: on the listing routes an absent limit or offset takes its default, and
\* a value that is not an integer is answered with a 4xx status without a
\* Spotify client call.
C8_MalformedParamIs400 ==
    \A r \in Threads :
        (Serving(r) /\ req[r].route \in ListingRoutes) =>
            \A i \in 1..Len(g[r].params) :
                LET p == g[r].params[i]
                IN  IF p.has /\ ~int(p.val).ok
                    THEN /\ g[r].calls = <<>>
                         /\ Responded(r) /\ resp[r].status \in 400..499
                    ELSE ~p.has =>
                           loc[r].args[i] = (IF req[r].route = "playlist_tracks" /\ i = 1
                                             THEN 100 ELSE IF i = 1 THEN 20 ELSE 0)

\* C9: every expiry test takes the token as expired exactly when
\* now >= expires_at, so /validate_token never reports token_expired = false
\* at now >= expires_at unless it refreshed in that request.
C9_ExpiryRuleUniform ==
    \A r \in Threads :
        g[r].test # <<>> =>
            /\ g[r].test[4] <=> (g[r].test[2] >= g[r].test[3])
            /\ (req[r].route = "validate_token" /\ Responded(r) /\ ~resp[r].expired
                  /\ g[r].nref = 0) => g[r].test[2] < g[r].test[3]

\* the stored pair is one refresh's pair and the client was built from it
Paired == expires_at = access_token[2] /\ sp = access_token

Reads(r) ==
    \/ At(r, "ensure") \/ At(r, "sp") \/ At(r, "debug_token") \/ At(r, "debug_return")

\* C10: with requests interleaved, whenever a request reads the token state
\* access_token and expires_at are the two halves of one refresh's pair and sp
\* is the client built from that access_token.
C10_TokenStatePaired == \A r \in Threads : Reads(r) => Paired

\* r's ensure_token found the token expired
SawExpiry(r) == g[r].chk # <<>> /\ Expired(g[r].chk[1], g[r].chk[3])

\* r and q both tested the same stored pair: neither had written when the
\* other tested (every refresh's token is a new one)
Raced(r, q) ==
    /\ r # q /\ SawExpiry(r) /\ SawExpiry(q)
    /\ g[r].chk[2] = g[q].chk[2] /\ g[r].chk[3] = g[q].chk[3]

\* r's ensure_token has returned
Ensured(r) == g[r].chk # <<>> /\ g[r].ensured

EachRefreshes ==
    \A r, q \in Threads :
        Raced(r, q) =>
            /\ g[r].nref <= 1
            /\ Ensured(r) => g[r].nref = 1 /\ ~g[r].failed /\ g[r].got # <<>>
            /\ (Ensured(r) /\ Ensured(q)) =>
                  /\ g[r].got[1] # g[q].got[1]
                  /\ issued >= g[r].chk[2][1] + 2

Stores(r) == sub[r] = "store_token" /\ sub'[r] = "store_expires"

LastWriteWins ==
    /\ \A r \in Threads : Stores(r) => access_token' = g[r].got[1]
    /\ access_token' # access_token => \E r \in Threads : Stores(r)

\* C11: ensure_token is not serialized: two requests that both find the same
\* stored token expired, before either has written, each make one refresh of
\* their own (two tokens issued for the one expiry), neither fails because of
\* the other, and every write of access_token replaces whatever is stored, so
\* the stored token is always the one of the request that wrote last.
C11_RedundantRefreshLastWriteWins == [][EachRefreshes' /\ LastWriteWins]_vars

\* both have returned from ensure_token after their own refresh, and the token
\* issued first is the one stored: its request wrote last
C11_Witness ==
    \E r, q \in Threads :
        /\ Raced(r, q) /\ Ensured(r) /\ Ensured(q)
        /\ g[r].nref = 1 /\ g[q].nref = 1
        /\ g[r].got[1][1] < g[q].got[1][1]
        /\ access_token = g[r].got[1]
====
